---- MODULE Spec2Model ----
(***************************************************************************)
(* L'Hopital limit resolver (src/src/main.rs): the Expression tree with    *)
(* evaluate and differentiate, and the loop of lhopital_solve.             *)
(*                                                                         *)
(* f64 values are modelled exactly.  A value is a record [n, d]: the      *)
(* rational n/d in lowest terms with d > 0, or, with d = 0, one of the    *)
(* three non-finite values +inf = [1,0], -inf = [-1,0], NaN = [0,0].      *)
(* The inputs are small integers and evaluation points that are powers of *)
(* two, so every intermediate f64 operation below is exact (the final     *)
(* quotient num_val / den_val is the rational that f64 rounds).  Zero is  *)
(* modelled unsigned: in the input trees below no Power base evaluates to *)
(* -0.0, and no division by a zero happens, so the sign of a zero never   *)
(* reaches a result.                                                      *)
(***************************************************************************)
EXTENDS Integers, Sequences, FiniteSets, TLC

\* ------------------------------------------------------------- bounds
\* Constant(c) literals of the input trees: 0 .. MaxConst.
MaxConst == 4
\* Power exponents of the input trees: -MaxNegExp .. MaxExp.
MaxExp == 2
MaxNegExp == 1
\* Evaluation points: 0 and +/- 2^k for k in 0 .. MaxAtLog.
MaxAtLog == 1
\* max_iterations of a call: 0 .. MaxIterations.
MaxIterations == 5

\* ------------------------------------------------------------- f64 values
Abs(k) == IF k < 0 THEN -k ELSE k

Sign(k) == IF k < 0 THEN -1 ELSE IF k > 0 THEN 1 ELSE 0

RECURSIVE Gcd(_, _)
Gcd(a, b) == IF b = 0 THEN a ELSE Gcd(b, a % b)

\* The value n/d (d of either sign, or 0 for the non-finite values).
F(n, d) ==
    IF d = 0 THEN [n |-> Sign(n), d |-> 0]
    ELSE LET g == Gcd(Abs(n), Abs(d))
             s == Sign(d)
         IN  [n |-> (s * n) \div g, d |-> (s * d) \div g]

Num(k) == [n |-> k, d |-> 1]
NaN == [n |-> 0, d |-> 0]
PosInf == [n |-> 1, d |-> 0]

IsNaN(v) == v.d = 0 /\ v.n = 0
IsInf(v) == v.d = 0 /\ v.n # 0
IsFinite(v) == v.d > 0

\* a + b in f64: NaN is absorbing, inf + (-inf) is NaN.
FAdd(a, b) ==
    IF IsNaN(a) \/ IsNaN(b) THEN NaN
    ELSE IF IsInf(a) /\ IsInf(b) THEN (IF a.n = b.n THEN a ELSE NaN)
    ELSE IF IsInf(a) THEN a
    ELSE IF IsInf(b) THEN b
    ELSE F(a.n * b.d + b.n * a.d, a.d * b.d)

FNeg(a) == [n |-> -a.n, d |-> a.d]

FSub(a, b) == FAdd(a, FNeg(b))

\* a * b in f64: NaN is absorbing, 0 * inf is NaN.
FMul(a, b) ==
    IF IsNaN(a) \/ IsNaN(b) THEN NaN
    ELSE IF IsInf(a) \/ IsInf(b)
         THEN (IF a.n = 0 \/ b.n = 0 THEN NaN ELSE F(Sign(a.n) * Sign(b.n), 0))
    ELSE F(a.n * b.n, a.d * b.d)

\* 1 / a in f64 (1 / +0.0 = +inf, 1 / inf = 0).
FRecip(a) ==
    IF IsNaN(a) THEN NaN
    ELSE IF IsInf(a) THEN Num(0)
    ELSE IF a.n = 0 THEN PosInf
    ELSE F(a.d, a.n)

FDiv(a, b) == FMul(a, FRecip(b))

\* f64::powf for an integer-valued exponent: x^0 = 1 for every x (NaN too),
\* x^k by repeated multiplication, x^(-k) = 1 / x^k (so 0^(-k) = +inf).
RECURSIVE powf(_, _)
powf(v, e) ==
    IF e = 0 THEN Num(1)
    ELSE IF e > 0 THEN FMul(v, powf(v, e - 1))
    ELSE FRecip(powf(v, -e))

\* The tolerance 1e-9 of lhopital_solve, as 1 / EpsilonInverse.
EpsilonInverse == 1000000000

\* v.abs() < 1e-9: false for NaN and the infinities.
\* |n|/d < 1/E  <=>  |n| * E < d  <=>  E <= (d - 1) \div |n|  (n # 0).
NearZero(v) ==
    /\ IsFinite(v)
    /\ \/ v.n = 0
       \/ EpsilonInverse <= (v.d - 1) \div Abs(v.n)

\* ------------------------------------------------------------- Expression
Constant(c) == [kind |-> "Constant", value |-> c]
Variable == [kind |-> "Variable"]
Sum(a, b) == [kind |-> "Sum", left |-> a, right |-> b]
Difference(a, b) == [kind |-> "Difference", left |-> a, right |-> b]
Product(a, b) == [kind |-> "Product", left |-> a, right |-> b]
Power(base, exp) == [kind |-> "Power", base |-> base, exp |-> exp]

\* Expression::evaluate
RECURSIVE evaluate(_, _)
evaluate(e, x) ==
    CASE e.kind = "Constant" -> Num(e.value)
      [] e.kind = "Variable" -> x
      [] e.kind = "Sum" -> FAdd(evaluate(e.left, x), evaluate(e.right, x))
      [] e.kind = "Difference" -> FSub(evaluate(e.left, x), evaluate(e.right, x))
      [] e.kind = "Product" -> FMul(evaluate(e.left, x), evaluate(e.right, x))
      [] e.kind = "Power" -> powf(evaluate(e.base, x), e.exp)

\* The two panics of Expression::differentiate.  A panic is not a value of
\* the function: it unwinds through every caller.
PowerPanic == [kind |-> "Panic",
               msg |-> "Differentiation for this power expression is not implemented."]
RulePanic == [kind |-> "Panic",
              msg |-> "Differentiation rule not implemented for this expression."]

IsPanic(r) == r.kind = "Panic"

\* Mutant of PowerRule: the exponent is not decremented.
PowerRuleKeepsExponent(base, exp) ==
    IF base = Variable
    THEN Product(Constant(exp), Power(base, exp))
    ELSE PowerPanic

\* Mutant of PowerRule: the derivative is folded with the product rule
\* already applied, so that it can be differentiated again.
PowerRuleFolded(base, exp) ==
    IF base = Variable
    THEN Power(base, exp - 1)
    ELSE PowerPanic

\* The Power arm of differentiate: d/dx(x^n) = n * x^(n-1), for base Variable only.
PowerRule(base, exp) ==
    IF base = Variable
    THEN Product(Constant(exp), Power(base, exp - 1))
    ELSE PowerPanic

\* A binary node of the derivatives a' and b'; the arguments are evaluated
\* left to right, so the first panic is the one that unwinds.
Both(a1, b1, node) ==
    IF IsPanic(a1) THEN a1 ELSE IF IsPanic(b1) THEN b1 ELSE node

\* Mutant of DifferenceRule: a Difference whose subtrahend has derivative
\* Constant(0) is simplified to the derivative of the minuend.
DifferenceRuleSimplified(a1, b1) ==
    IF ~IsPanic(a1) /\ b1 = Constant(0) THEN a1 ELSE Both(a1, b1, Difference(a1, b1))

\* The Difference arm of differentiate, given the derivatives of the children.
DifferenceRule(a1, b1) == Both(a1, b1, Difference(a1, b1))

\* Mutant of ConstantRule: the rule of Variable is applied to a Constant.
ConstantRuleOne(c) == Constant(1)

\* The Constant arm of differentiate: d/dx(c) = 0.
ConstantRule(c) == Constant(0)

\* Expression::differentiate: the derivative tree, or the panic raised.
RECURSIVE differentiate(_)
differentiate(e) ==
    CASE e.kind = "Constant" -> ConstantRule(e.value)
      [] e.kind = "Variable" -> Constant(1)
      [] e.kind = "Sum" ->
            LET a1 == differentiate(e.left)
                b1 == differentiate(e.right)
            IN  Both(a1, b1, Sum(a1, b1))
      [] e.kind = "Difference" ->
            DifferenceRule(differentiate(e.left), differentiate(e.right))
      [] e.kind = "Power" -> PowerRule(e.base, e.exp)
      [] OTHER -> RulePanic

\* ------------------------------------------------------------- inputs
ConstVals == 0 .. MaxConst
ExpVals == (-MaxNegExp) .. MaxExp

RECURSIVE TwoTo(_)
TwoTo(k) == IF k = 0 THEN 1 ELSE 2 * TwoTo(k - 1)

\* Evaluation points of the solver, and of the pure-function harness.
AtVals == {0} \cup {TwoTo(k) : k \in 0 .. MaxAtLog}
XVals == AtVals \cup {-x : x \in AtVals}

Leaves == {Variable} \cup {Constant(c) : c \in ConstVals}
Powers == {Power(Variable, n) : n \in ExpVals}
            \cup {Power(Sum(Variable, Constant(1)), 2)}
Binary(as, bs) ==
    UNION {{Sum(a, b), Difference(a, b), Product(a, b)} : <<a, b>> \in as \X bs}

\* The numerators and denominators a call is made with.  They contain the
\* trees of main() and of the four end-to-end scenarios.
Numerators == Leaves \cup Powers \cup Binary({Variable} \cup Powers, Leaves)
Denominators ==
    Leaves \cup Powers
      \cup {Difference(Variable, b) : b \in Leaves}
      \cup {Product(Variable, Variable)}

\* ------------------------------------------------------------- state
VARIABLES
    numerator, denominator, at, max_iterations,  \* the arguments of lhopital_solve
    num, den,            \* the working trees
    i,                   \* the loop index
    pc,                  \* "loop", "returned", "panicked" ("idle": no call)
    result,              \* the value returned, or the panic that unwound
    log,                 \* what each iteration printed before classifying
    numDiffs, denDiffs,  \* how often num, den were replaced by their derivative
    f_expr, f_x,         \* the harness: a tree and a point
    f_cur, f_count,      \*   the tree after f_count differentiations
    f_val, f_pc          \*   its value at f_x; "ready", "evaluated", "panicked"

solveVars == <<numerator, denominator, at, max_iterations, num, den, i, pc,
               result, log, numDiffs, denDiffs>>
pureVars == <<f_expr, f_x, f_cur, f_count, f_val, f_pc>>
vars == <<solveVars, pureVars>>

None == [kind |-> "None"]
Ok(v) == [kind |-> "Ok", value |-> v]
Err(m) == [kind |-> "Err", msg |-> m]
DivisionByZero == Err("Limit results in division by zero.")
MaxIterationsExceeded ==
    Err("Exceeded max iterations, could not find a determinate form.")

\* ------------------------------------------------------------- lhopital_solve
\* Mutant of InRange: the loop runs once more.
InRangeInclusive(k, n) == k <= n

\* Mutant of InRange: the loop body runs at least once (a do-while loop).
InRangeAtLeastOnce(k, n) == k < n \/ k = 0

\* for i in 0..max_iterations
InRange(k, n) == k < n

\* Mutant of Classify: the denominator is tested before the 0/0 form.
ClassifyDenominatorFirst(num_val, den_val) ==
    IF NearZero(den_val) THEN "DivisionByZero"
    ELSE IF NearZero(num_val) /\ NearZero(den_val) THEN "ZeroOverZero"
    ELSE "LimitFound"

\* The if / else if / else of an iteration.
Classify(num_val, den_val) ==
    IF NearZero(num_val) /\ NearZero(den_val) THEN "ZeroOverZero"
    ELSE IF NearZero(den_val) THEN "DivisionByZero"
    ELSE "LimitFound"

\* Mutant of StepDen: the denominator is not differentiated.
StepDenSkipped(d) == d

\* num = num.differentiate();  den = den.differentiate();
StepNum(n) == differentiate(n)
StepDen(d) == differentiate(d)

\* Mutant of Quotient: the ratio is inverted.
QuotientInverted(num_val, den_val) == FDiv(den_val, num_val)

\* Ok(num_val / den_val)
Quotient(num_val, den_val) == FDiv(num_val, den_val)

\* The println! lines of an iteration, with the branch then taken.
Observation == [i |-> i, num |-> num, den |-> den,
                num_val |-> evaluate(num, Num(at)),
                den_val |-> evaluate(den, Num(at)),
                branch |-> Classify(evaluate(num, Num(at)), evaluate(den, Num(at)))]

SolveInit ==
    /\ numerator \in Numerators
    /\ denominator \in Denominators
    /\ at \in AtVals
    /\ max_iterations \in 0 .. MaxIterations
    /\ num = numerator
    /\ den = denominator
    /\ i = 0
    /\ pc = "loop"
    /\ result = None
    /\ log = <<>>
    /\ numDiffs = 0
    /\ denDiffs = 0

\* An iteration that finds 0/0 and differentiates both trees.
ZeroOverZero ==
    /\ pc = "loop"
    /\ InRange(i, max_iterations)
    /\ Observation.branch = "ZeroOverZero"
    /\ ~IsPanic(StepNum(num))
    /\ ~IsPanic(StepDen(den))
    /\ log' = Append(log, Observation)
    /\ num' = StepNum(num)
    /\ den' = StepDen(den)
    /\ numDiffs' = numDiffs + 1
    /\ denDiffs' = denDiffs + 1
    /\ i' = i + 1
    /\ UNCHANGED pureVars
    /\ UNCHANGED <<numerator, denominator, at, max_iterations, pc, result>>

\* An iteration that finds 0/0 and panics in num.differentiate().
ZeroOverZeroNumPanics ==
    /\ pc = "loop"
    /\ InRange(i, max_iterations)
    /\ Observation.branch = "ZeroOverZero"
    /\ IsPanic(StepNum(num))
    /\ log' = Append(log, Observation)
    /\ pc' = "panicked"
    /\ result' = StepNum(num)
    /\ UNCHANGED pureVars
    /\ UNCHANGED <<numerator, denominator, at, max_iterations, num, den, i,
                   numDiffs, denDiffs>>

\* An iteration that finds 0/0, replaces num and panics in den.differentiate().
ZeroOverZeroDenPanics ==
    /\ pc = "loop"
    /\ InRange(i, max_iterations)
    /\ Observation.branch = "ZeroOverZero"
    /\ ~IsPanic(StepNum(num))
    /\ IsPanic(StepDen(den))
    /\ log' = Append(log, Observation)
    /\ num' = StepNum(num)
    /\ numDiffs' = numDiffs + 1
    /\ pc' = "panicked"
    /\ result' = StepDen(den)
    /\ UNCHANGED pureVars
    /\ UNCHANGED <<numerator, denominator, at, max_iterations, den, i, denDiffs>>

\* An iteration that returns Err("Limit results in division by zero.").
ReturnDivisionByZero ==
    /\ pc = "loop"
    /\ InRange(i, max_iterations)
    /\ Observation.branch = "DivisionByZero"
    /\ log' = Append(log, Observation)
    /\ pc' = "returned"
    /\ result' = DivisionByZero
    /\ UNCHANGED pureVars
    /\ UNCHANGED <<numerator, denominator, at, max_iterations, num, den, i,
                   numDiffs, denDiffs>>

\* An iteration that returns Ok(num_val / den_val).
ReturnLimit ==
    /\ pc = "loop"
    /\ InRange(i, max_iterations)
    /\ Observation.branch = "LimitFound"
    /\ log' = Append(log, Observation)
    /\ pc' = "returned"
    /\ result' = Ok(Quotient(Observation.num_val, Observation.den_val))
    /\ UNCHANGED pureVars
    /\ UNCHANGED <<numerator, denominator, at, max_iterations, num, den, i,
                   numDiffs, denDiffs>>

\* The loop is exhausted: Err("Exceeded max iterations, ...").
ReturnExceeded ==
    /\ pc = "loop"
    /\ ~InRange(i, max_iterations)
    /\ pc' = "returned"
    /\ result' = MaxIterationsExceeded
    /\ UNCHANGED pureVars
    /\ UNCHANGED <<numerator, denominator, at, max_iterations, num, den, i,
                   log, numDiffs, denDiffs>>

\* ------------------------------------------------------------- harness
\* evaluate and differentiate applied directly to a tree, as a caller may.
MaxDiffs == 2

SolveIdle ==
    /\ numerator = Variable
    /\ denominator = Variable
    /\ at = 0
    /\ max_iterations = 0
    /\ num = Variable
    /\ den = Variable
    /\ i = 0
    /\ pc = "idle"
    /\ result = None
    /\ log = <<>>
    /\ numDiffs = 0
    /\ denDiffs = 0

PureIdle ==
    /\ f_expr = Variable
    /\ f_x = 0
    /\ f_cur = Variable
    /\ f_count = 0
    /\ f_val = None
    /\ f_pc = "idle"

PureInit ==
    /\ f_expr \in Numerators
    /\ f_x \in XVals
    /\ f_cur = f_expr
    /\ f_count = 0
    /\ f_val = None
    /\ f_pc = "ready"

\* f_cur.differentiate()
ApplyDifferentiate ==
    /\ f_pc = "ready"
    /\ f_count < MaxDiffs
    /\ f_cur' = differentiate(f_cur)
    /\ f_count' = f_count + 1
    /\ f_pc' = IF IsPanic(differentiate(f_cur)) THEN "panicked" ELSE "ready"
    /\ UNCHANGED solveVars
    /\ UNCHANGED <<f_expr, f_x, f_val>>

\* f_cur.evaluate(f_x)
ApplyEvaluate ==
    /\ f_pc = "ready"
    /\ f_val' = evaluate(f_cur, Num(f_x))
    /\ f_pc' = "evaluated"
    /\ UNCHANGED solveVars
    /\ UNCHANGED <<f_expr, f_x, f_cur, f_count>>

\* ------------------------------------------------------------- specification
Init ==
    \/ SolveInit /\ PureIdle
    \/ SolveIdle /\ PureInit

Next ==
    \/ ZeroOverZero
    \/ ZeroOverZeroNumPanics
    \/ ZeroOverZeroDenPanics
    \/ ReturnDivisionByZero
    \/ ReturnLimit
    \/ ReturnExceeded
    \/ ApplyDifferentiate
    \/ ApplyEvaluate

Spec == Init /\ [][Next]_vars

\* ------------------------------------------------------------- properties
Solving == pc # "idle"
Returned == pc = "returned"
Panicked == pc = "panicked"

\* The kind of outcome a finished call has; "none" for anything else.
Outcome ==
    IF Returned /\ result.kind = "Ok" THEN "numeric"
    ELSE IF Returned /\ result.kind = "Err" /\ result.msg = DivisionByZero.msg
         THEN "DivisionByZero"
    ELSE IF Returned /\ result.kind = "Err" /\ result.msg = MaxIterationsExceeded.msg
         THEN "MaxIterationsExceeded"
    ELSE IF Panicked /\ result.kind = "Panic" /\ result.msg \in {PowerPanic.msg, RulePanic.msg}
         THEN "DifferentiationUnsupported"
    ELSE "none"

\* A Product node, or a Power node whose base is not exactly Variable,
\* anywhere in the tree.
RECURSIVE ContainsUnsupported(_)
ContainsUnsupported(e) ==
    CASE e.kind = "Product" -> TRUE
      [] e.kind = "Power" -> e.base # Variable
      [] e.kind \in {"Sum", "Difference"} ->
            ContainsUnsupported(e.left) \/ ContainsUnsupported(e.right)
      [] OTHER -> FALSE

\* A Power(Variable, n) node anywhere in the tree.
RECURSIVE ContainsPowerOfVariable(_)
ContainsPowerOfVariable(e) ==
    CASE e.kind = "Power" -> e.base = Variable \/ ContainsPowerOfVariable(e.base)
      [] e.kind \in {"Sum", "Difference", "Product"} ->
            ContainsPowerOfVariable(e.left) \/ ContainsPowerOfVariable(e.right)
      [] OTHER -> FALSE

\* The k-fold derivative of a tree.
RECURSIVE DiffN(_, _)
DiffN(e, k) == IF k = 0 THEN e ELSE differentiate(DiffN(e, k - 1))

BothNearZero(o) == NearZero(o.num_val) /\ NearZero(o.den_val)

\* The call of main(): the limit of (x^2 - 4) / (x - 2) at 2, 5 iterations.
IsMainCall ==
    /\ Solving
    /\ numerator = Difference(Power(Variable, 2), Constant(4))
    /\ denominator = Difference(Variable, Constant(2))
    /\ at = 2
    /\ max_iterations = 5

\* One arm of the loop applies.
C1_CanStep ==
    \/ ~InRange(i, max_iterations)
    \/ Observation.branch \in {"ZeroOverZero", "DivisionByZero", "LimitFound"}
\* The iterations performed are bounded and the call ends in a known way.
C1_Bounded ==
    Solving =>
        /\ pc \in {"loop", "returned", "panicked"}
        /\ Len(log) <= max_iterations
        /\ i <= max_iterations
        /\ pc = "loop" => (Len(log) = i /\ C1_CanStep)
        /\ pc # "loop" =>
              Outcome \in {"numeric", "DivisionByZero", "MaxIterationsExceeded",
                           "DifferentiationUnsupported"}
\* A step at the head of the loop starts the next iteration or ends the call.
C1_Progress ==
    /\ pc = "loop" =>
          \/ pc' = "loop" /\ i' = i + 1 /\ Len(log') = Len(log) + 1
          \/ pc' \in {"returned", "panicked"} /\ Len(log') <= Len(log) + 1
    /\ pc \in {"returned", "panicked"} => UNCHANGED solveVars
\* C1: a call performs at most max_iterations iterations and then ends: at
\* the head of the loop it has performed exactly i <= max_iterations
\* iterations and one arm of the loop applies, every step taken there starts
\* the next iteration or ends the call, and the call ends as a numeric
\* result, DivisionByZero, MaxIterationsExceeded or
\* DifferentiationUnsupported (which the code raises as a panic).
C1_SolveTerminates == [](C1_Bounded) /\ [][C1_Progress]_vars
C1_Witness ==
    /\ Returned
    /\ max_iterations = 3
    /\ Len(log) = 3
    /\ Outcome = "MaxIterationsExceeded"
    /\ numerator = Difference(Variable, Variable)

\* C2 (as claimed): an iteration in the 0/0 branch whose numerator or
\* denominator contains an unsupported node makes the call return an
\* ordinary error value; the call returns, it does not abort.
C2_UnsupportedIsReturned ==
    \A k \in 1 .. Len(log) :
        ( /\ log[k].branch = "ZeroOverZero"
          /\ ContainsUnsupported(log[k].num) \/ ContainsUnsupported(log[k].den) )
        => (pc = "returned" /\ result.kind = "Err")

\* C3: the call of main() finds 0/0 in iteration 0, evaluates 4 and 1 in
\* iteration 1 and returns 4 there; it has no other outcome.
C3_MainReturnsFour ==
    IsMainCall =>
        /\ Len(log) <= 2
        /\ Len(log) >= 1 =>
              /\ log[1].num_val = Num(0)
              /\ log[1].den_val = Num(0)
              /\ log[1].branch = "ZeroOverZero"
        /\ Len(log) >= 2 =>
              /\ log[2].i = 1
              /\ log[2].num_val = Num(4)
              /\ log[2].den_val = Num(1)
              /\ log[2].branch = "LimitFound"
        /\ pc # "loop" =>
              /\ Returned
              /\ result = Ok(Num(4))
              /\ i = 1
              /\ Len(log) = 2
C3_Witness == IsMainCall /\ Returned /\ result.kind = "Ok" /\ result.value = Num(4)

\* C4: every iteration but a returning one saw 0/0; DivisionByZero is
\* returned only from an iteration whose den_val is near zero and whose
\* num_val is not; a number is returned only from an iteration whose den_val
\* is not near zero, and is num_val / den_val; an iteration that saw 0/0
\* does not return; Solve(Constant(1), Constant(0)) returns DivisionByZero
\* in iteration 0.
C4_Priority ==
    Solving =>
        /\ \A k \in 1 .. Len(log) :
              /\ k < Len(log) => BothNearZero(log[k])
              /\ BothNearZero(log[k]) =>
                    (k = Len(log) => Outcome \notin {"numeric", "DivisionByZero"})
        /\ Outcome = "DivisionByZero" =>
              /\ Len(log) >= 1
              /\ NearZero(log[Len(log)].den_val)
              /\ ~NearZero(log[Len(log)].num_val)
        /\ Outcome = "numeric" =>
              /\ Len(log) >= 1
              /\ ~NearZero(log[Len(log)].den_val)
              /\ result.value = FDiv(log[Len(log)].num_val, log[Len(log)].den_val)
        /\ ( /\ numerator = Constant(1)
             /\ denominator = Constant(0)
             /\ max_iterations >= 1
             /\ pc # "loop" )
           => (Outcome = "DivisionByZero" /\ Len(log) = 1 /\ i = 0)
C4_Witness ==
    /\ numerator = Constant(1)
    /\ denominator = Constant(0)
    /\ at = 2
    /\ max_iterations = 1
    /\ Outcome = "DivisionByZero"

\* C5: with max_iterations = 0 the call returns MaxIterationsExceeded and
\* has evaluated nothing, differentiated nothing and printed nothing.
C5_ZeroBudget ==
    (Solving /\ max_iterations = 0) =>
        /\ log = <<>>
        /\ numDiffs = 0
        /\ denDiffs = 0
        /\ num = numerator
        /\ den = denominator
        /\ pc # "loop" => (Returned /\ result = MaxIterationsExceeded)
C5_Witness ==
    /\ max_iterations = 0
    /\ Returned
    /\ Outcome = "MaxIterationsExceeded"
    /\ numerator = Product(Variable, Variable)
    /\ denominator = Variable
    /\ at = 0

\* C6: Solve(Constant(0), Constant(0), _, N), N >= 1, sees 0/0 in each of
\* its N iterations, keeps both trees Constant(0), and returns
\* MaxIterationsExceeded after exactly N iterations; and any call that
\* returns MaxIterationsExceeded saw 0/0 in all max_iterations iterations.
C6_Exceeded ==
    /\ ( /\ Solving
         /\ numerator = Constant(0)
         /\ denominator = Constant(0)
         /\ max_iterations >= 1 )
       => /\ \A k \in 1 .. Len(log) : log[k].branch = "ZeroOverZero"
          /\ num = Constant(0)
          /\ den = Constant(0)
          /\ pc # "loop" =>
                (Outcome = "MaxIterationsExceeded" /\ Len(log) = max_iterations)
    /\ Outcome = "MaxIterationsExceeded" =>
          /\ i = max_iterations
          /\ Len(log) = max_iterations
          /\ \A k \in 1 .. Len(log) :
                log[k].i = k - 1 /\ log[k].branch = "ZeroOverZero"
C6_Witness ==
    /\ numerator = Constant(0)
    /\ denominator = Constant(0)
    /\ max_iterations = 3
    /\ at = 1
    /\ Len(log) = 3
    /\ Outcome = "MaxIterationsExceeded"

\* The derivative of x^n at x # 0, over the rationals: n * x^(n-1).
RECURSIVE IntPow(_, _)
IntPow(x, k) == IF k = 0 THEN 1 ELSE x * IntPow(x, k - 1)
ReferenceDerivative(n, x) ==
    IF n - 1 >= 0 THEN F(n * IntPow(x, n - 1), 1) ELSE F(n, IntPow(x, 1 - n))

\* C7: the derivative of Power(Variable, n), evaluated at x # 0, is
\* n * x^(n-1).
C7_PowerRule ==
    \A n \in ExpVals :
        ( /\ f_expr = Power(Variable, n)
          /\ f_count = 1
          /\ f_pc = "evaluated"
          /\ f_x # 0 )
        => f_val = ReferenceDerivative(n, f_x)
C7_Witness ==
    /\ f_expr = Power(Variable, 2)
    /\ f_x = -2
    /\ f_count = 1
    /\ f_pc = "evaluated"
    /\ f_val = Num(-4)

\* C8 (as claimed): in every reachable state of a call both working trees
\* have been differentiated the same number of times, that number is the
\* iteration index i, and they are the i-fold derivatives of the input trees.
C8_AlwaysLockstep ==
    Solving =>
        /\ numDiffs = denDiffs
        /\ numDiffs = i
        /\ num = DiffN(numerator, i)
        /\ den = DiffN(denominator, i)

\* At the head of the loop and at a return both working trees are the
\* i-fold derivatives of the input trees, all i earlier iterations having
\* seen 0/0.
C8_Lockstep ==
    pc \in {"loop", "returned"} =>
        /\ numDiffs = i
        /\ denDiffs = i
        /\ num = DiffN(numerator, i)
        /\ den = DiffN(denominator, i)
        /\ Len(log) >= i
        /\ \A k \in 1 .. i : log[k].branch = "ZeroOverZero"
        /\ \A k \in 1 .. Len(log) : log[k].branch = "ZeroOverZero" => k <= i
\* After a panic in iteration i the denominator is still the i-fold
\* derivative; the numerator is too when num.differentiate() panicked, and
\* is the (i+1)-fold derivative when den.differentiate() panicked, the
\* assignment to num having run before it.
C8_Aborted ==
    pc = "panicked" =>
        /\ denDiffs = i
        /\ den = DiffN(denominator, i)
        /\ Len(log) = i + 1
        /\ \A k \in 1 .. i + 1 : log[k].branch = "ZeroOverZero"
        /\ \/ /\ numDiffs = i
              /\ num = DiffN(numerator, i)
              /\ IsPanic(differentiate(num))
              /\ result = differentiate(num)
           \/ /\ numDiffs = i + 1
              /\ num = DiffN(numerator, i + 1)
              /\ ~IsPanic(num)
              /\ IsPanic(differentiate(den))
              /\ result = differentiate(den)
\* The input trees never change; den is never replaced without num; num is
\* replaced without den only by the step that panics in den.differentiate().
C8_Step ==
    /\ numerator' = numerator
    /\ denominator' = denominator
    /\ (num' # num) => (numDiffs' = numDiffs + 1)
    /\ (den' # den) => (denDiffs' = denDiffs + 1)
    /\ (denDiffs' # denDiffs) => (numDiffs' = numDiffs + 1 /\ denDiffs' = denDiffs + 1)
    /\ (numDiffs' # numDiffs /\ denDiffs' = denDiffs) =>
          (pc = "loop" /\ pc' = "panicked" /\ IsPanic(differentiate(den)))
\* C8 (amended): at the head of every iteration and at a return, both
\* working trees have been differentiated exactly i times and are the i-fold
\* derivatives of the unchanged input trees.  The one step that replaces a
\* working tree without the other is the 0/0 iteration in which
\* den.differentiate() fails: num has then been replaced by its derivative
\* (differentiated i+1 times) and den has not (i times).  When
\* num.differentiate() fails neither tree is replaced.
C8_LockstepUnlessDenFails ==
    [](C8_Lockstep /\ C8_Aborted) /\ [][C8_Step]_vars
C8_Witness ==
    /\ pc = "panicked"
    /\ i = 1
    /\ numDiffs = 2
    /\ denDiffs = 1
    /\ num = DiffN(numerator, 2)
    /\ num # numerator

\* C9 (as claimed): differentiating Power(Variable, n) twice yields a tree,
\* and a call whose working tree contains a Power(Variable, n) node in a
\* 0/0 iteration does not fail in a 0/0 iteration that follows it.
C9_TwiceSucceeds ==
    /\ \A n \in ExpVals :
          (f_expr = Power(Variable, n) /\ f_count = 2) =>
              (~IsPanic(f_cur) /\ f_cur.kind = "Product")
    /\ \A k \in 1 .. Len(log) - 1 :
          ( /\ ContainsPowerOfVariable(log[k].num) \/ ContainsPowerOfVariable(log[k].den)
            /\ log[k].branch = "ZeroOverZero"
            /\ log[k + 1].branch = "ZeroOverZero" )
          => ~(Panicked /\ Len(log) = k + 1)

\* C9 (amended): the derivative of Power(Variable, n) is the Product
\* n * x^(n-1), and differentiate has no rule for a Product, so the second
\* differentiation panics; a call whose working tree contains a
\* Power(Variable, n) node in a 0/0 iteration panics in the next iteration
\* if that one sees 0/0 too.
C9_TwiceFails ==
    /\ \A n \in ExpVals :
          f_expr = Power(Variable, n) =>
              /\ f_count = 1 => f_cur = Product(Constant(n), Power(Variable, n - 1))
              /\ f_count = 2 => (f_cur = RulePanic /\ f_pc = "panicked")
    /\ \A k \in 1 .. Len(log) - 1 :
          ( /\ ContainsPowerOfVariable(log[k].num) \/ ContainsPowerOfVariable(log[k].den)
            /\ log[k].branch = "ZeroOverZero"
            /\ log[k + 1].branch = "ZeroOverZero" )
          => (Panicked /\ Len(log) = k + 1 /\ result = RulePanic)
C9_Witness ==
    /\ f_expr = Power(Variable, 2)
    /\ f_count = 2
    /\ f_pc = "panicked"

\* C10 (as claimed): in the call of main() the working trees at the start of
\* iteration 1 are Product(Constant(2), Power(Variable, 1)) and Constant(1).
C10_SimplifiedTrees ==
    (IsMainCall /\ pc = "loop" /\ i = 1) =>
        /\ num = Product(Constant(2), Power(Variable, 1))
        /\ den = Constant(1)

\* C10 (amended): in the call of main() the working trees at the start of
\* iteration 1 are the unsimplified derivatives
\* Difference(Product(Constant(2), Power(Variable, 1)), Constant(0)) and
\* Difference(Constant(1), Constant(0)).
C10_UnsimplifiedTrees ==
    (IsMainCall /\ pc = "loop" /\ i = 1) =>
        /\ num = Difference(Product(Constant(2), Power(Variable, 1)), Constant(0))
        /\ den = Difference(Constant(1), Constant(0))
C10_Witness == IsMainCall /\ pc = "loop" /\ i = 1 /\ Len(log) = 1
====
